---- MODULE Spec2Model ----
(***************************************************************************)
(* LED Fan Color Corrector: the colour conversions, the device-specific    *)
(* correction and the session state driven by the page's event handlers.   *)
(*                                                                         *)
(* Arithmetic.  The program computes in IEEE-754 doubles.  The model       *)
(* computes every quantity exactly, as an integer numerator over a fixed   *)
(* denominator:                                                            *)
(*   - a hue is carried in units of 1/90 degree  (h90  = 90 * degrees),    *)
(*   - a saturation in units of 1/20 percent     (s20  = 20 * percent),    *)
(*   - a lightness in whole percent,                                       *)
(*   - a multiplier or a reduction in hundredths (0.85 is 85).             *)
(* A double differs from the exact value by a relative error near 1e-16,   *)
(* so Math.round of a double is the rounding of the exact value unless the *)
(* exact value is k + 1/2.  There the double may be k + 1/2 or fall just   *)
(* below it, and Math.round yields k + 1 or k.  MathRound therefore        *)
(* returns the SET of results Math.round can produce, and every operator   *)
(* built on it returns the set of results the function can return.         *)
(***************************************************************************)
EXTENDS Integers, Sequences, FiniteSets, TLC

\* ---------------------------------------------------------------- numbers

Max(a, b) == IF a >= b THEN a ELSE b
Min(a, b) == IF a <= b THEN a ELSE b
Abs(a) == IF a < 0 THEN -a ELSE a
Max3(a, b, c) == Max(a, Max(b, c))
Min3(a, b, c) == Min(a, Min(b, c))

\* Math.round(n / d) for an exactly represented n / d (d > 0): the nearest
\* integer, a tie going up.
RoundHalfUp(n, d) == (n + d \div 2) \div d

\* n / d is exactly k + 1/2.
IsTie(n, d) == d % 2 = 0 /\ (n + d \div 2) % d = 0

\* Math.round of the double that approximates n / d (d > 0).
MathRound(n, d) ==
  IF IsTie(n, d) THEN {RoundHalfUp(n, d) - 1, RoundHalfUp(n, d)}
  ELSE {RoundHalfUp(n, d)}

\* Math.max(0, Math.min(255, n))
Clamp255(n) == Max(0, Min(255, n))

\* ------------------------------------------------------- device profiles

Rule(min, max, greenMultiplier, hueShift) ==
  [range |-> <<min, max>>, greenMultiplier |-> greenMultiplier, hueShift |-> hueShift]

BlueRule(min, max, blueMultiplier, hueShift) ==
  [range |-> <<min, max>>, blueMultiplier |-> blueMultiplier, hueShift |-> hueShift]

\* The four hue ranges every profile declares, in declaration order:
\* orange, yellow, purple, teal.
Rules(gOrange, hOrange, gYellow, hYellow, bPurple, hPurple, gTeal, hTeal) ==
  << Rule(15, 45, gOrange, hOrange),
     Rule(45, 65, gYellow, hYellow),
     BlueRule(270, 300, bPurple, hPurple),
     Rule(170, 200, gTeal, hTeal) >>

\* The companion software is the same for every profile of a brand.
Software(brand) ==
  CASE brand = "lianli" -> "L-Connect" [] brand = "corsair" -> "iCUE"
    [] brand = "nzxt" -> "CAM" [] brand = "coolermaster" -> "MasterPlus+"

Profile(brand, greenReduction, hueShift, saturationBoost, blueReduction, hueCorrections) ==
  [brand |-> brand, software |-> Software(brand),
   greenReduction |-> greenReduction, hueShift |-> hueShift,
   saturationBoost |-> saturationBoost, blueReduction |-> blueReduction,
   hueCorrections |-> hueCorrections]

DEVICE_PROFILES ==
     "tl-fans"       :> Profile("lianli", 85, -8, 115, 70, Rules(8, -10, 15, -5, 85, 5, 90, 3))
  @@ "strimer"       :> (Profile("lianli", 80, -10, 120, 65, Rules(10, -12, 18, -6, 82, 6, 88, 4))
                          @@ [brightnessRecommendation |-> 40])
  @@ "sl-fans"       :> Profile("lianli", 88, -6, 110, 75, Rules(12, -8, 20, -4, 88, 4, 92, 2))
  @@ "corsair-ql"    :> Profile("corsair", 73, -12, 120, 70, Rules(9, -15, 12, -8, 80, 8, 85, 5))
  @@ "corsair-ll"    :> Profile("corsair", 78, -10, 115, 72, Rules(10, -12, 15, -6, 82, 6, 88, 4))
  @@ "corsair-sp"    :> Profile("corsair", 80, -8, 110, 75, Rules(27, -10, 18, -5, 85, 5, 90, 3))
  @@ "nzxt-aer"      :> Profile("nzxt", 82, -8, 115, 70, Rules(5, -12, 10, -8, 80, 8, 85, 5))
  @@ "nzxt-kraken"   :> Profile("nzxt", 80, -10, 120, 68, Rules(2, -15, 8, -10, 78, 10, 82, 6))
  @@ "nzxt-hue"      :> Profile("nzxt", 85, -6, 110, 75, Rules(8, -10, 12, -6, 85, 5, 88, 4))
  @@ "cm-masterfan"  :> Profile("coolermaster", 85, -5, 110, 78, Rules(15, -8, 20, -4, 88, 4, 90, 2))
  @@ "cm-sickleflow" :> Profile("coolermaster", 82, -7, 115, 75, Rules(12, -10, 18, -5, 85, 5, 88, 3))
  @@ "cm-halos"      :> Profile("coolermaster", 80, -8, 120, 72, Rules(10, -12, 15, -6, 82, 6, 85, 4))

\* ----------------------------------------------------- colour conversions

RGB(r, g, b) == [r |-> r, g |-> g, b |-> b]
HSL(h, s, l) == [h |-> h, s |-> s, l |-> l]

\* The hue in degrees before rounding, as a numerator over d = max - min
\* (the switch on max: red first, then green, then blue).
HueNumerator(r, g, b) ==
  LET max == Max3(r, g, b)
      d   == max - Min3(r, g, b)
  IN  IF max = r THEN 60 * (g - b) + (IF g < b THEN 360 * d ELSE 0)
      ELSE IF max = g THEN 60 * (b - r) + 120 * d
      ELSE 60 * (r - g) + 240 * d

\* rgbToHsl(r, g, b): the HSL triples (whole degrees, whole percents) the
\* function can return.
rgbToHsl(r, g, b) ==
  LET max == Max3(r, g, b)
      min == Min3(r, g, b)
      d   == max - min
      \* l = (max + min) / 2 of channels divided by 255; l > 0.5 iff max + min > 255
      ls  == MathRound(100 * (max + min), 510)
      den == IF max + min > 255 THEN 510 - max - min ELSE max + min
  IN  IF max = min
        THEN {HSL(0, 0, l) : l \in ls}
        ELSE {HSL(h, s, l) : h \in MathRound(HueNumerator(r, g, b), d),
                             s \in MathRound(100 * d, den),
                             l \in ls}

\* hue2rgb without "if (t > 1) t -= 1".
hue2rgbNoWrap(p, q, t) ==
  LET t2 == IF t < 0 THEN t + 32400 ELSE t
  IN  IF t2 < 5400 THEN p * 5400 + (q - p) * t2
      ELSE IF t2 < 16200 THEN q * 5400
      ELSE IF t2 < 21600 THEN p * 5400 + (q - p) * (21600 - t2)
      ELSE p * 5400

\* hue2rgb(p, q, t): p and q are numerators over 200000, t is in units of
\* 1/32400 turn (the hue in 1/90 degree, shifted by a third of a turn); the
\* result is a numerator over 1080000000 = 200000 * 5400.
hue2rgb(p, q, t) ==
  LET t1 == IF t < 0 THEN t + 32400 ELSE t
      t2 == IF t1 > 32400 THEN t1 - 32400 ELSE t1
  IN  IF t2 < 5400 THEN p * 5400 + (q - p) * t2
      ELSE IF t2 < 16200 THEN q * 5400
      ELSE IF t2 < 21600 THEN p * 5400 + (q - p) * (21600 - t2)
      ELSE p * 5400

\* Math.round(x * 255) for x = n / 1080000000 in [0, 1]: 255 / 1080000000 is
\* 17 / 72000000, and n is split so that no product leaves 32 bits.
RoundChannel(n) ==
  LET a == n \div 72000000
      b == n % 72000000
  IN  {17 * a + k : k \in MathRound(17 * b, 72000000)}

\* hslToRgb(h, s, l) with h in 1/90 degree, s in 1/20 percent, l in percent:
\* the RGB triples the function can return.
hslToRgb(h90, s20, l) ==
  IF s20 = 0
    THEN {RGB(v, v, v) : v \in MathRound(255 * l, 100)}
    ELSE LET q == IF l < 50 THEN l * (2000 + s20)
                  ELSE 2000 * l + 100 * s20 - l * s20
             p == 4000 * l - q
         IN  {RGB(r, g, b) : r \in RoundChannel(hue2rgb(p, q, h90 + 10800)),
                             g \in RoundChannel(hue2rgb(p, q, h90)),
                             b \in RoundChannel(hue2rgb(p, q, h90 - 10800))}

\* ------------------------------------------------------------- correction

\* The object DEVICE_PROFILES names is not frozen: its contents are state.
VARIABLE profiles

\* DEVICE_PROFILES[deviceProfile] is undefined for any other key.
Resolves(deviceProfile) == deviceProfile \in DOMAIN profiles

\* The loop without its break: the last rule whose range contains the hue.
RECURSIVE FindCorrectionLast(_, _, _)
FindCorrectionLast(hueCorrections, i, h) ==
  IF i > Len(hueCorrections) THEN 0
  ELSE LET later == FindCorrectionLast(hueCorrections, i + 1, h)
       IN  IF later # 0 THEN later
           ELSE IF h >= hueCorrections[i].range[1] /\ h <= hueCorrections[i].range[2] THEN i
           ELSE 0

\* The loop over profile.hueCorrections from index i on: the index of the
\* first rule whose closed range contains the hue, 0 (null) when none does.
RECURSIVE FindCorrection(_, _, _)
FindCorrection(hueCorrections, i, h) ==
  IF i > Len(hueCorrections) THEN 0
  ELSE IF h >= hueCorrections[i].range[1] /\ h <= hueCorrections[i].range[2] THEN i
  ELSE FindCorrection(hueCorrections, i + 1, h)

specialCorrection(profile, h) == FindCorrection(profile.hueCorrections, 1, h)

\* correctedG with the green multiplier of the active rule left unused: the
\* warm-hue formula whether a rule is active or not.
correctedGreenNoRule(profile, g, h) ==
  IF h >= 0 /\ h <= 90
    THEN MathRound(g * (9000 - (90 - h) * (100 - profile.greenReduction)), 9000)
    ELSE {g}

\* correctedG after the branch on specialCorrection: the values it can take.
correctedGreen(profile, g, h) ==
  LET i == specialCorrection(profile, h)
  IN  IF i # 0
        THEN IF "greenMultiplier" \in DOMAIN profile.hueCorrections[i]
               THEN MathRound(g * profile.hueCorrections[i].greenMultiplier, 100)
               ELSE {g}
        ELSE IF h >= 0 /\ h <= 90
               \* g * (1 - warmFactor * (1 - greenReduction)), warmFactor = 1 - h / 90
               THEN MathRound(g * (9000 - (90 - h) * (100 - profile.greenReduction)), 9000)
               ELSE {g}

\* correctedB after the branch on specialCorrection: the values it can take.
correctedBlue(profile, b, h) ==
  LET i == specialCorrection(profile, h)
  IN  IF i # 0
        THEN IF "blueMultiplier" \in DOMAIN profile.hueCorrections[i]
               THEN MathRound(b * profile.hueCorrections[i].blueMultiplier, 100)
               ELSE {b}
        ELSE IF h >= 200 /\ h <= 340
               \* b * (1 - coolFactor * (1 - blueReduction) * 0.3),
               \* coolFactor = 1 - |h - 270| / 70
               THEN MathRound(b * (70000 - 3 * (70 - Abs(h - 270)) * (100 - profile.blueReduction)),
                              70000)
               ELSE {b}

\* correctedHue after the branch, in 1/90 degree.
correctedHue(profile, h) ==
  LET i == specialCorrection(profile, h)
  IN  IF i # 0
        THEN 90 * Max(0, Min(360, h + profile.hueCorrections[i].hueShift))
        ELSE IF h >= 0 /\ h <= 90
               THEN Max(0, 90 * h + profile.hueShift * (90 - h))
               ELSE 90 * h

\* correctedSat = Math.min(100, hsl.s * saturationBoost), in 1/20 percent.
correctedSat(profile, s) == Min(2000, (s * profile.saturationBoost) \div 5)

\* hsl.s * saturationBoost is a double.  Where the exact product is s + 5 the
\* comparison "> 5" is decided by the product's rounding error: 25 * 1.2
\* evaluates to 30 exactly, 50 * 1.1 to 55.00000000000001.
SatProductRoundsAbove(profile, s) == profile.saturationBoost = 110 /\ s = 50

\* The blend entered whatever the hue and the saturation have moved by.
RecalculatesAlways(profile, h, s) == TRUE

\* Math.abs(correctedHue - hsl.h) > 2 || Math.abs(correctedSat - hsl.s) > 5
Recalculates(profile, h, s) ==
  \/ Abs(correctedHue(profile, h) - 90 * h) > 180
  \/ Abs(correctedSat(profile, s) - 20 * s) > 100
  \/ SatProductRoundsAbove(profile, s)

\* correctColor with the blend written as a sum, "/ 2" left out, and returned
\* as it is, the clamp left out.
CorrectFromUnclamped(rgb, profile, hsl) ==
  LET direct == {RGB(rgb.r, g, b) : g \in correctedGreen(profile, rgb.g, hsl.h),
                                    b \in correctedBlue(profile, rgb.b, hsl.h)}
  IN  IF Recalculates(profile, hsl.h, hsl.s)
        THEN {RGB(c.r + newRgb.r, c.g + newRgb.g, c.b + newRgb.b) :
                c \in direct,
                newRgb \in hslToRgb(correctedHue(profile, hsl.h),
                                    correctedSat(profile, hsl.s), hsl.l)}
        ELSE direct

\* The rest of correctColor once rgbToHsl has returned hsl.
CorrectFrom(rgb, profile, hsl) ==
  LET direct == {RGB(rgb.r, g, b) : g \in correctedGreen(profile, rgb.g, hsl.h),
                                    b \in correctedBlue(profile, rgb.b, hsl.h)}
      blended == IF Recalculates(profile, hsl.h, hsl.s)
                   THEN {RGB(RoundHalfUp(c.r + newRgb.r, 2),
                             RoundHalfUp(c.g + newRgb.g, 2),
                             RoundHalfUp(c.b + newRgb.b, 2)) :
                           c \in direct,
                           newRgb \in hslToRgb(correctedHue(profile, hsl.h),
                                               correctedSat(profile, hsl.s), hsl.l)}
                   ELSE direct
  IN  {RGB(Clamp255(c.r), Clamp255(c.g), Clamp255(c.b)) : c \in blended}

\* correctColor(rgb, deviceProfile) for a key that resolves: the colours it
\* can return.  For a key that does not resolve, profile is undefined and
\* reading profile.hueCorrections throws a TypeError.
correctColor(rgb, deviceProfile) ==
  UNION {CorrectFrom(rgb, profiles[deviceProfile], hsl) :
           hsl \in rgbToHsl(rgb.r, rgb.g, rgb.b)}

\* ------------------------------------------------------------------ text
\* A string is a sequence of one-character strings.

\* The digits Number.prototype.toString(16) writes, by value.
HexDigits == <<"0", "1", "2", "3", "4", "5", "6", "7", "8", "9",
               "a", "b", "c", "d", "e", "f">>

UpperCaseChar(c) ==
  CASE c = "a" -> "A" [] c = "b" -> "B" [] c = "c" -> "C"
    [] c = "d" -> "D" [] c = "e" -> "E" [] c = "f" -> "F"
    [] c = "x" -> "X" [] c = "g" -> "G"
    [] OTHER -> c

\* String.prototype.toUpperCase
toUpperCase(str) == [i \in DOMAIN str |-> UpperCaseChar(str[i])]

\* A character the class [a-f\d] matches under the flag i.
IsHexDigit(c) == \E i \in DOMAIN HexDigits : c = HexDigits[i] \/ c = UpperCaseChar(HexDigits[i])

\* The value of a digit character in either letter case.
DigitValue(c) == (CHOOSE i \in DOMAIN HexDigits : c = HexDigits[i] \/ c = UpperCaseChar(HexDigits[i])) - 1

\* n.toString(16) for an integer n in 0..255: one or two lowercase digits.
toString16(n) ==
  IF n < 16 THEN <<HexDigits[n + 1]>>
  ELSE <<HexDigits[(n \div 16) + 1], HexDigits[(n % 16) + 1]>>

\* toHex without the leading '0' for a one-digit value.
toHexUnpadded(n) == toString16(Clamp255(n))

\* toHex inside rgbToHex, for an integer n (Math.round leaves it as it is).
toHex(n) ==
  LET hex == toString16(Clamp255(n))
  IN  IF Len(hex) = 1 THEN <<"0">> \o hex ELSE hex

\* rgbToHex without toUpperCase().
rgbToHexLower(r, g, b) == <<"#">> \o toHex(r) \o toHex(g) \o toHex(b)

rgbToHex(r, g, b) == toUpperCase(<<"#">> \o toHex(r) \o toHex(g) \o toHex(b))

\* parseInt(pair, 16) for two hex digits.
ParseHexPair(pair) == 16 * DigitValue(pair[1]) + DigitValue(pair[2])

null == [null |-> TRUE]

\* The expression without its '$': /^#?([a-f\d]{2})([a-f\d]{2})([a-f\d]{2})/i.
HexGroupsUnanchored(hex) ==
  LET body == IF Len(hex) > 0 /\ hex[1] = "#" THEN Tail(hex) ELSE hex
  IN  IF Len(body) >= 6 /\ \A i \in 1..6 : IsHexDigit(body[i])
        THEN <<SubSeq(body, 1, 2), SubSeq(body, 3, 4), SubSeq(body, 5, 6)>>
        ELSE null

\* /^#?([a-f\d]{2})([a-f\d]{2})([a-f\d]{2})$/i.exec(hex): the three groups,
\* or null when the string does not match.
HexGroups(hex) ==
  LET body == IF Len(hex) > 0 /\ hex[1] = "#" THEN Tail(hex) ELSE hex
  IN  IF Len(body) = 6 /\ \A i \in 1..6 : IsHexDigit(body[i])
        THEN <<SubSeq(body, 1, 2), SubSeq(body, 3, 4), SubSeq(body, 5, 6)>>
        ELSE null

\* hexToRgb that also reads the shorthand of 3 digits, each digit doubled.
hexToRgbShorthand(hex) ==
  LET body   == IF Len(hex) > 0 /\ hex[1] = "#" THEN Tail(hex) ELSE hex
      result == HexGroups(hex)
  IN  IF Len(body) = 3 /\ \A i \in 1..3 : IsHexDigit(body[i])
        THEN RGB(17 * DigitValue(body[1]), 17 * DigitValue(body[2]), 17 * DigitValue(body[3]))
        ELSE IF result # null
          THEN RGB(ParseHexPair(result[1]), ParseHexPair(result[2]), ParseHexPair(result[3]))
          ELSE null

hexToRgb(hex) ==
  LET result == HexGroups(hex)
  IN  IF result # null
        THEN RGB(ParseHexPair(result[1]), ParseHexPair(result[2]), ParseHexPair(result[3]))
        ELSE null

\* /^#?([a-f\d]{6})$/i.test(hex)
isValidHex(hex) ==
  \/ Len(hex) = 6 /\ \A i \in 1..6 : IsHexDigit(hex[i])
  \/ Len(hex) = 7 /\ hex[1] = "#" /\ \A i \in 2..7 : IsHexDigit(hex[i])

\* getColorCategory with each upper end of a range taken into the range.
getColorCategoryInclusive(hue) ==
  IF hue >= 0 /\ hue <= 15 THEN "red"
  ELSE IF hue >= 15 /\ hue <= 45 THEN "orange"
  ELSE IF hue >= 45 /\ hue <= 70 THEN "yellow"
  ELSE IF hue >= 70 /\ hue <= 150 THEN "green"
  ELSE IF hue >= 150 /\ hue <= 200 THEN "teal"
  ELSE IF hue >= 200 /\ hue <= 260 THEN "blue"
  ELSE IF hue >= 260 /\ hue <= 310 THEN "purple"
  ELSE IF hue >= 310 /\ hue <= 340 THEN "pink"
  ELSE "red"

getColorCategory(hue) ==
  IF hue >= 0 /\ hue < 15 THEN "red"
  ELSE IF hue >= 15 /\ hue < 45 THEN "orange"
  ELSE IF hue >= 45 /\ hue < 70 THEN "yellow"
  ELSE IF hue >= 70 /\ hue < 150 THEN "green"
  ELSE IF hue >= 150 /\ hue < 200 THEN "teal"
  ELSE IF hue >= 200 /\ hue < 260 THEN "blue"
  ELSE IF hue >= 260 /\ hue < 310 THEN "purple"
  ELSE IF hue >= 310 /\ hue < 340 THEN "pink"
  ELSE "red"

\* A number as parseInt returns it: NaN, or an integer.
NaN == [isNaN |-> TRUE]
Number(n) == [isNaN |-> FALSE, value |-> n]

\* The number of leading characters of str that are digits of the radix.
RECURSIVE DigitPrefix(_, _)
DigitPrefix(str, radix) ==
  IF str # <<>> /\ IsHexDigit(str[1]) /\ DigitValue(str[1]) < radix
    THEN 1 + DigitPrefix(Tail(str), radix)
    ELSE 0

\* The value of a string of digits of the radix.
RECURSIVE DigitsValue(_, _)
DigitsValue(str, radix) ==
  IF str = <<>> THEN 0
  ELSE radix * DigitsValue(SubSeq(str, 1, Len(str) - 1), radix) + DigitValue(str[Len(str)])

RECURSIVE TrimStart(_)
TrimStart(str) == IF str # <<>> /\ str[1] = " " THEN TrimStart(Tail(str)) ELSE str

\* parseInt(str) without a radix: leading white space, a sign, an optional
\* 0x prefix, then the longest run of digits; NaN when there is no digit.
parseInt(str) ==
  LET trimmed  == TrimStart(str)
      signed   == trimmed # <<>> /\ trimmed[1] \in {"+", "-"}
      unsigned == IF signed THEN Tail(trimmed) ELSE trimmed
      hex      == Len(unsigned) >= 2 /\ unsigned[1] = "0" /\ unsigned[2] \in {"x", "X"}
      radix    == IF hex THEN 16 ELSE 10
      digits   == IF hex THEN SubSeq(unsigned, 3, Len(unsigned)) ELSE unsigned
      n        == DigitPrefix(digits, radix)
      value    == DigitsValue(SubSeq(digits, 1, n), radix)
  IN  IF n = 0 THEN NaN
      ELSE IF signed /\ trimmed[1] = "-" THEN Number(-value) ELSE Number(value)

\* number || 0: NaN and 0 are falsy.
OrZero(number) == IF number.isNaN THEN 0 ELSE number.value

\* --------------------------------------------------------------- the page
\* The markup is not part of the script.  The page is modelled by the
\* elements the script queries: the device buttons (data-device, data-brand)
\* in document order and the brand tabs (data-brand).

Button(device, brand) == [device |-> device, brand |-> brand]

\* One device button per profile, in the order of DEVICE_PROFILES.
ProfileButtons ==
  << Button("tl-fans", "lianli"), Button("strimer", "lianli"), Button("sl-fans", "lianli"),
     Button("corsair-ql", "corsair"), Button("corsair-ll", "corsair"),
     Button("corsair-sp", "corsair"),
     Button("nzxt-aer", "nzxt"), Button("nzxt-kraken", "nzxt"), Button("nzxt-hue", "nzxt"),
     Button("cm-masterfan", "coolermaster"), Button("cm-sickleflow", "coolermaster"),
     Button("cm-halos", "coolermaster") >>

\* A page with one more button, whose data-device names no profile.
MisconfiguredButtons == ProfileButtons \o <<Button("custom", "lianli")>>

\* One tab per brand, and one tab of a brand with no device button.
brandTabs == {"lianli", "corsair", "nzxt", "coolermaster", "thermaltake"}

\* document.querySelector(`.device-btn[data-brand="${brand}"]`): the index of
\* the first button of the brand in document order from i on, 0 (null) when
\* there is none.
RECURSIVE FirstButton(_, _, _)
FirstButton(buttons, brand, i) ==
  IF i > Len(buttons) THEN 0
  ELSE IF buttons[i].brand = brand THEN i
  ELSE FirstButton(buttons, brand, i + 1)

\* ------------------------------------------------------------------ state

VARIABLES
  currentDevice,      \* let currentDevice
  currentBrand,       \* let currentBrand
  currentBrightness,  \* let currentBrightness
  currentColor,       \* let currentColor
  deviceButtons,      \* elements.deviceButtons: the device buttons of the page
  dom,                \* the contents of the elements the script writes
  hidden,             \* the indices of the device buttons with class "hidden"
  computedFor,        \* history: the arguments of the correctColor call and the
                      \* brightness whose result the corrected fields show
  fault,              \* the last handler ended with an uncaught exception
  pc, call, ret       \* a direct call of one function: stage, arguments, result

session == <<currentDevice, currentBrand, currentBrightness, currentColor>>
page    == <<deviceButtons, dom, hidden, computedFor, fault>>
direct  == <<pc, call, ret>>
vars    == <<currentDevice, currentBrand, currentBrightness, currentColor,
             deviceButtons, dom, hidden, computedFor, fault, pc, call, ret, profiles>>

\* Math.round(c * (brightness / 100)).  For a brightness that is a multiple
\* of 25 the factor is a multiple of 1/4: it and the product are exact
\* doubles, and a tie goes up.
RoundScaled(c, brightness) ==
  IF brightness % 25 = 0 THEN {RoundHalfUp(c * brightness, 100)}
  ELSE MathRound(c * brightness, 100)

\* adjustedCorrected: the corrected colour scaled by currentBrightness / 100.
AdjustBrightness(corrected, brightness) ==
  {RGB(r, g, b) : r \in RoundScaled(corrected.r, brightness),
                  g \in RoundScaled(corrected.g, brightness),
                  b \in RoundScaled(corrected.b, brightness)}

\* The text of the brightness tip: the recommendation of the profile, or 0
\* for the general tip.
BrightnessTip(device) ==
  IF Resolves(device) /\ "brightnessRecommendation" \in DOMAIN profiles[device]
    THEN profiles[device].brightnessRecommendation
    ELSE 0

\* updateUI() up to the call of correctColor: the input elements and the
\* target preview.
ShowTarget(d, color) ==
  LET hex == rgbToHex(color.r, color.g, color.b)
  IN  [d EXCEPT !.colorPicker = hex, !.hexInput = hex,
                !.rInput = color.r, !.gInput = color.g, !.bInput = color.b,
                !.targetHex = hex, !.targetRgb = color]

\* updateUI() after correctColor has returned corrected.
ShowCorrected(d, device, adjusted, hsl) ==
  [d EXCEPT !.correctedHex = rgbToHex(adjusted.r, adjusted.g, adjusted.b),
            !.correctedRgb = adjusted,
            !.softwareHint = profiles[device].software,
            !.brightnessTip = BrightnessTip(device),
            !.tipText = getColorCategory(hsl.h)]

\* updateUI() on the state (color, device, brightness) and the page (d, for):
\* the outcomes it can end with.  With a device key that does not resolve,
\* correctColor throws after the target fields are written, and the rest of
\* updateUI does not run.
updateUI(color, device, brightness, d, for) ==
  IF ~Resolves(device)
    THEN {[dom |-> ShowTarget(d, color), computedFor |-> for, fault |-> TRUE]}
    ELSE {[dom |-> ShowCorrected(ShowTarget(d, color), device, adjusted, hsl),
           computedFor |-> [color |-> color, device |-> device, brightness |-> brightness],
           fault |-> FALSE] :
            hsl \in rgbToHsl(color.r, color.g, color.b),
            adjusted \in UNION {AdjustBrightness(c, brightness) : c \in correctColor(color, device)}}

\* ----------------------------------------------------------------- inputs

BrightnessStep == 50
MaxBrightness == 150

\* The values the colour picker, the hex field and the preset buttons deliver.
OrangeHex  == <<"#", "F", "F", "6", "6", "0", "0">>
BlueHex    == <<"0", "0", "0", "0", "f", "f">>
BadHex     == <<"#", "1", "2", "G", "4", "5", "6">>
PartialHex == <<"#", "F", "F", "6">>

PickerValues == {BlueHex, BadHex}
HexTexts     == {OrangeHex, BlueHex, BadHex}
PresetColors == {OrangeHex, PartialHex}

\* What can be typed into a channel field.
ChannelTexts ==
  { <<"2", "5", "5">>, <<"3", "0", "0">>, <<"-", "5">>, <<"a", "b", "c">>, <<>>,
    <<" ", "0", "x", "F", "F", "p", "x">> }

\* n as the decimal string a range slider reports (0 <= n <= 999).
SliderText(n) ==
  IF n < 10 THEN <<HexDigits[n + 1]>>
  ELSE IF n < 100 THEN <<HexDigits[(n \div 10) + 1], HexDigits[(n % 10) + 1]>>
  ELSE <<HexDigits[(n \div 100) + 1], HexDigits[((n \div 10) % 10) + 1], HexDigits[(n % 10) + 1]>>

SliderValues ==
  {SliderText(n) : n \in {m \in BrightnessStep..MaxBrightness : m % BrightnessStep = 0}}

\* ------------------------------------------------------------------- load

\* The page before the script has written to it.
BlankDom ==
  [colorPicker |-> <<>>, hexInput |-> <<>>, rInput |-> 0, gInput |-> 0, bInput |-> 0,
   targetHex |-> <<>>, targetRgb |-> RGB(0, 0, 0),
   correctedHex |-> <<>>, correctedRgb |-> RGB(0, 0, 0),
   softwareHint |-> "", brightnessTip |-> 0, tipText |-> "",
   brightnessValue |-> 100, activeTab |-> "lianli", activeButton |-> 1]

\* The state once the script has run to its last line on a page with the
\* given device buttons: the declarations of the state, then updateUI().
Loaded(buttons) ==
  /\ profiles = DEVICE_PROFILES
  /\ deviceButtons = buttons
  /\ currentDevice = "tl-fans"
  /\ currentBrand = "lianli"
  /\ currentBrightness = 100
  /\ currentColor = RGB(255, 102, 0)
  /\ hidden = {i \in DOMAIN buttons : buttons[i].brand # "lianli"}
  /\ \E out \in updateUI(RGB(255, 102, 0), "tl-fans", 100, BlankDom,
                         [color |-> RGB(0, 0, 0), device |-> "", brightness |-> 0]) :
       /\ dom = out.dom
       /\ computedFor = out.computedFor
       /\ fault = out.fault

Init ==
  /\ Loaded(ProfileButtons)
  /\ pc = "page"
  /\ call = <<>>
  /\ ret = <<>>

\* --------------------------------------------------------------- handlers

\* A handler that ends by calling updateUI() with the new state.
Refresh(color, device, brightness, d) ==
  \E out \in updateUI(color, device, brightness, d, computedFor) :
    /\ dom' = out.dom
    /\ computedFor' = out.computedFor
    /\ fault' = out.fault
    /\ UNCHANGED profiles

\* A handler that returns without calling updateUI().
Ignore(d) ==
  /\ dom' = d
  /\ fault' = FALSE
  /\ UNCHANGED <<currentDevice, currentBrand, currentBrightness, currentColor,
                 deviceButtons, hidden, computedFor, profiles>>

\* elements.colorPicker 'input'
ColorPickerInput(value) ==
  LET rgb == hexToRgb(value)
  IN  /\ pc = "page"
      /\ IF rgb # null
           THEN /\ currentColor' = rgb
                /\ Refresh(rgb, currentDevice, currentBrightness, dom)
                /\ UNCHANGED <<currentDevice, currentBrand, currentBrightness, deviceButtons, hidden>>
           ELSE Ignore(dom)
      /\ UNCHANGED direct

\* elements.hexInput 'input'
HexInputInput(text) ==
  LET value == IF Len(text) > 0 /\ text[1] = "#" THEN text ELSE <<"#">> \o text
      rgb   == hexToRgb(value)
      d     == [dom EXCEPT !.hexInput = text]
  IN  /\ pc = "page"
      /\ IF isValidHex(value) /\ rgb # null
           THEN /\ currentColor' = rgb
                /\ Refresh(rgb, currentDevice, currentBrightness, d)
                /\ UNCHANGED <<currentDevice, currentBrand, currentBrightness, deviceButtons, hidden>>
           ELSE Ignore(d)
      /\ UNCHANGED direct

\* elements.hexInput 'blur'
HexInputBlur ==
  /\ pc = "page"
  /\ Ignore([dom EXCEPT !.hexInput = rgbToHex(currentColor.r, currentColor.g, currentColor.b)])
  /\ UNCHANGED direct

\* The channel handler with Math.max(0, value) for the clamp.
ChannelInputNoUpper(channel, text) ==
  LET value == OrZero(parseInt(text))
      color == [currentColor EXCEPT ![channel] = Max(0, value)]
  IN  /\ pc = "page"
      /\ currentColor' = color
      /\ Refresh(color, currentDevice, currentBrightness, dom)
      /\ UNCHANGED <<currentDevice, currentBrand, currentBrightness, deviceButtons, hidden>>
      /\ UNCHANGED direct

\* elements.rInput / gInput / bInput 'input'
ChannelInput(channel, text) ==
  LET value == OrZero(parseInt(text))
      color == [currentColor EXCEPT ![channel] = Max(0, Min(255, value))]
  IN  /\ pc = "page"
      /\ currentColor' = color
      /\ Refresh(color, currentDevice, currentBrightness, dom)
      /\ UNCHANGED <<currentDevice, currentBrand, currentBrightness, deviceButtons, hidden>>
      /\ UNCHANGED direct

\* a brand tab 'click'
BrandTabClick(brand) ==
  LET firstDevice == FirstButton(deviceButtons, brand, 1)
      device == IF firstDevice # 0 THEN deviceButtons[firstDevice].device ELSE currentDevice
      d == IF firstDevice # 0
             THEN [dom EXCEPT !.activeTab = brand, !.activeButton = firstDevice]
             ELSE [dom EXCEPT !.activeTab = brand]
  IN  /\ pc = "page"
      /\ hidden' = {i \in DOMAIN deviceButtons : deviceButtons[i].brand # brand}
      /\ currentDevice' = device
      /\ currentBrand' = IF firstDevice # 0 THEN brand ELSE currentBrand
      /\ Refresh(currentColor, device, currentBrightness, d)
      /\ UNCHANGED <<currentBrightness, currentColor, deviceButtons>>
      /\ UNCHANGED direct

\* a device button 'click'
DeviceButtonClick(btn) ==
  /\ pc = "page"
  /\ IF btn \in hidden
       THEN Ignore(dom)
       ELSE /\ currentDevice' = deviceButtons[btn].device
            /\ currentBrand' = deviceButtons[btn].brand
            /\ Refresh(currentColor, deviceButtons[btn].device, currentBrightness,
                       [dom EXCEPT !.activeButton = btn])
            /\ UNCHANGED <<currentBrightness, currentColor, deviceButtons, hidden>>
  /\ UNCHANGED direct

\* The slider's handler without its call of updateUI().
BrightnessInputNoUpdate(text) ==
  LET brightness == parseInt(text).value
  IN  /\ pc = "page"
      /\ currentBrightness' = brightness
      /\ dom' = [dom EXCEPT !.brightnessValue = brightness]
      /\ fault' = FALSE
      /\ UNCHANGED <<currentDevice, currentBrand, currentColor, deviceButtons, hidden,
                     computedFor, profiles>>
      /\ UNCHANGED direct

\* elements.brightnessSlider 'input'
BrightnessInput(text) ==
  LET brightness == parseInt(text).value
  IN  /\ pc = "page"
      /\ currentBrightness' = brightness
      /\ Refresh(currentColor, currentDevice, brightness,
                 [dom EXCEPT !.brightnessValue = brightness])
      /\ UNCHANGED <<currentDevice, currentBrand, currentColor, deviceButtons, hidden>>
      /\ UNCHANGED direct

\* a preset button 'click'
PresetClick(color) ==
  LET rgb == hexToRgb(color)
  IN  /\ pc = "page"
      /\ IF rgb # null
           THEN /\ currentColor' = rgb
                /\ Refresh(rgb, currentDevice, currentBrightness, dom)
                /\ UNCHANGED <<currentDevice, currentBrand, currentBrightness, deviceButtons, hidden>>
           ELSE Ignore(dom)
      /\ UNCHANGED direct

Next ==
  \/ \E value \in PickerValues : ColorPickerInput(value)
  \/ \E text \in HexTexts : HexInputInput(text)
  \/ HexInputBlur
  \/ \E channel \in {"r", "g", "b"}, text \in ChannelTexts : ChannelInput(channel, text)
  \/ \E brand \in brandTabs : BrandTabClick(brand)
  \/ \E btn \in DOMAIN deviceButtons : DeviceButtonClick(btn)
  \/ \E text \in SliderValues : BrightnessInput(text)
  \/ \E color \in PresetColors : PresetClick(color)

Spec == Init /\ [][Next]_vars

\* The page with the button that names no profile, driven by the colour
\* picker, the presets, the device buttons and the brightness slider.
InitMisconfigured ==
  /\ Loaded(MisconfiguredButtons)
  /\ pc = "page"
  /\ call = <<>>
  /\ ret = <<>>

NextMisconfigured ==
  \/ \E value \in PickerValues : ColorPickerInput(value)
  \/ \E btn \in DOMAIN deviceButtons : DeviceButtonClick(btn)
  \/ \E text \in SliderValues : BrightnessInput(text)
  \/ \E color \in PresetColors : PresetClick(color)

SpecMisconfigured == InitMisconfigured /\ [][NextMisconfigured]_vars

\* ----------------------------------------------------------- direct calls
\* Each function called on its own, the page left as loaded: pc is the
\* function about to return, call its arguments, ret its result.

ChannelStep == 17
CorrectStep == 32
MaxHexLen == 7

\* Channel values: a grid over 0..255 and the values next to its ends.
Channels == {c \in 0..255 : c % ChannelStep = 0} \cup {1, 2, 228, 230, 254, 255}
CorrectChannels == {c \in 0..255 : c % CorrectStep = 0} \cup {102, 128, 255}

\* Strings of a '#', a decimal digit, a hex letter in each case and a letter
\* that is no hex digit.
HexAlphabet == {"#", "9", "f", "A", "G"}
HexStrings == UNION {[1..n -> HexAlphabet] : n \in 0..MaxHexLen}

Called(fn, arguments) ==
  /\ Loaded(ProfileButtons)
  /\ pc = fn
  /\ call \in arguments
  /\ ret = <<>>

Return(fn, next, result) ==
  /\ pc = fn
  /\ pc' = next
  /\ ret' = result
  /\ UNCHANGED <<call, session, page, profiles>>

\* rgbToHsl(r, g, b), then hslToRgb on its result.
InitConvert == Called("rgbToHsl", {RGB(r, g, b) : r \in Channels, g \in Channels, b \in Channels})

ReturnHsl ==
  /\ pc = "rgbToHsl"
  /\ \E hsl \in rgbToHsl(call.r, call.g, call.b) : Return("rgbToHsl", "hslToRgb", hsl)

ReturnRgb ==
  /\ pc = "hslToRgb"
  /\ \E rgb \in hslToRgb(90 * ret.h, 20 * ret.s, ret.l) :
       Return("hslToRgb", "converted", [hsl |-> ret, rgb |-> rgb])

NextConvert == ReturnHsl \/ ReturnRgb

SpecConvert == InitConvert /\ [][NextConvert]_vars

\* hexToRgb(hex) and isValidHex(hex) on a string; rgbToHex(r, g, b) on a
\* colour, then hexToRgb on its result.
InitHex ==
  \/ Called("hexToRgb", HexStrings)
  \/ Called("rgbToHex", {RGB(r, g, b) : r \in Channels, g \in Channels, b \in Channels})

ReturnParsed ==
  /\ pc = "hexToRgb"
  /\ Return("hexToRgb", "parsed", [rgb |-> hexToRgb(call), valid |-> isValidHex(call)])

ReturnHex ==
  /\ pc = "rgbToHex"
  /\ Return("rgbToHex", "formatted", rgbToHex(call.r, call.g, call.b))

ReturnParsedBack ==
  /\ pc = "formatted"
  /\ Return("formatted", "reparsed", [hex |-> ret, rgb |-> hexToRgb(ret)])

\* rgbToHex on the colour hexToRgb has returned.
ReturnHexBack ==
  /\ pc = "parsed"
  /\ ret.rgb # null
  /\ Return("parsed", "normalized", rgbToHex(ret.rgb.r, ret.rgb.g, ret.rgb.b))

NextHex == ReturnParsed \/ ReturnHex \/ ReturnParsedBack \/ ReturnHexBack

SpecHex == InitHex /\ [][NextHex]_vars

\* getColorCategory(hue) on a whole hue.
InitCategory == Called("getColorCategory", 0..360)

ReturnCategory ==
  /\ pc = "getColorCategory"
  /\ Return("getColorCategory", "classified", getColorCategory(call))

NextCategory == ReturnCategory

SpecCategory == InitCategory /\ [][NextCategory]_vars

\* correctColor(rgb, deviceProfile) on a colour and a key, one of the keys
\* naming no profile: it returns a colour or throws.
InitCorrect ==
  Called("correctColor",
         [rgb : {RGB(r, g, b) : r \in CorrectChannels, g \in CorrectChannels, b \in CorrectChannels},
          deviceProfile : DOMAIN DEVICE_PROFILES \cup {"custom"}])

\* correctColor writing the corrected channels into its argument, rgb.g =
\* ... for correctedG = ..., and returning it.
ReturnCorrectedInPlace ==
  /\ pc = "correctColor"
  /\ Resolves(call.deviceProfile)
  /\ \E rgb \in correctColor(call.rgb, call.deviceProfile) :
       /\ pc' = "corrected"
       /\ ret' = rgb
       /\ call' = [call EXCEPT !.rgb = rgb]
       /\ UNCHANGED <<session, page, profiles>>

ReturnCorrected ==
  /\ pc = "correctColor"
  /\ Resolves(call.deviceProfile)
  /\ \E rgb \in correctColor(call.rgb, call.deviceProfile) :
       Return("correctColor", "corrected", rgb)

ThrowTypeError ==
  /\ pc = "correctColor"
  /\ ~Resolves(call.deviceProfile)
  /\ Return("correctColor", "thrown", "TypeError")

NextCorrect == ReturnCorrected \/ ThrowTypeError

SpecCorrect == InitCorrect /\ [][NextCorrect]_vars

\* The rule scan and the branch on its result, lines 384-420 of correctColor,
\* on a whole hue, a profile and a green and a blue to correct.
InitScan ==
  Called("specialCorrection",
         [hue : 0..360, deviceProfile : DOMAIN DEVICE_PROFILES, g : {100, 200}, b : {200}])

ReturnScan ==
  /\ pc = "specialCorrection"
  /\ LET profile == profiles[call.deviceProfile]
     IN  \E g \in correctedGreen(profile, call.g, call.hue),
            b \in correctedBlue(profile, call.b, call.hue) :
           Return("specialCorrection", "scanned",
                  [active |-> specialCorrection(profile, call.hue),
                   correctedG |-> g, correctedB |-> b,
                   correctedHue |-> correctedHue(profile, call.hue)])

NextScan == ReturnScan

SpecScan == InitScan /\ [][NextScan]_vars

\* The older version of the script, src/app.js.  Its rgbToHsl, hslToRgb,
\* rgbToHex and correctColor are those of the newer version line for line;
\* its profiles have no brand, software or brightnessRecommendation, and its
\* updateUI shows the corrected colour as correctColor returns it.
appProfile(greenReduction, hueShift, saturationBoost, blueReduction, hueCorrections) ==
  [greenReduction |-> greenReduction, hueShift |-> hueShift,
   saturationBoost |-> saturationBoost, blueReduction |-> blueReduction,
   hueCorrections |-> hueCorrections]

\* The older table with the saturationBoost of 'strimer' left at the value
\* of 'tl-fans'.
appDEVICE_PROFILES_Drifted ==
     "tl-fans" :> appProfile(85, -8, 115, 70, Rules(8, -10, 15, -5, 85, 5, 90, 3))
  @@ "strimer" :> appProfile(80, -10, 115, 65, Rules(10, -12, 18, -6, 82, 6, 88, 4))
  @@ "sl-fans" :> appProfile(88, -6, 110, 75, Rules(12, -8, 20, -4, 88, 4, 92, 2))

appDEVICE_PROFILES ==
     "tl-fans" :> appProfile(85, -8, 115, 70, Rules(8, -10, 15, -5, 85, 5, 90, 3))
  @@ "strimer" :> appProfile(80, -10, 120, 65, Rules(10, -12, 18, -6, 82, 6, 88, 4))
  @@ "sl-fans" :> appProfile(88, -6, 110, 75, Rules(12, -8, 20, -4, 88, 4, 92, 2))

\* correctColor of src/app.js: the colours it can return.
appCorrectColor(rgb, deviceProfile) ==
  UNION {CorrectFrom(rgb, appDEVICE_PROFILES[deviceProfile], hsl) :
           hsl \in rgbToHsl(rgb.r, rgb.g, rgb.b)}

\* What updateUI of src/app.js writes to the corrected fields.
appShowCorrected(color, device) ==
  {[correctedHex |-> rgbToHex(c.r, c.g, c.b), correctedRgb |-> c] :
     c \in appCorrectColor(color, device)}

\* What updateUI of the newer version writes to the corrected fields.
CorrectedFields(color, device, brightness) ==
  {[correctedHex |-> rgbToHex(c.r, c.g, c.b), correctedRgb |-> c] :
     c \in UNION {AdjustBrightness(corrected, brightness) :
                    corrected \in correctColor(color, device)}}

\* Both versions on one colour and one key of the older table, the newer at
\* its initial brightness.  A rounding the model leaves open is decided by
\* the same double arithmetic in both, so the versions are compared by the
\* outcomes each of them can have.
InitVersions ==
  Called("versions",
         [rgb : {RGB(r, g, b) : r \in CorrectChannels, g \in CorrectChannels, b \in CorrectChannels},
          deviceProfile : DOMAIN appDEVICE_PROFILES])

ReturnVersions ==
  /\ pc = "versions"
  /\ Return("versions", "compared",
            [app |-> appCorrectColor(call.rgb, call.deviceProfile),
             part |-> correctColor(call.rgb, call.deviceProfile),
             appShown |-> appShowCorrected(call.rgb, call.deviceProfile),
             partShown |-> CorrectedFields(call.rgb, call.deviceProfile, currentBrightness)])

NextVersions == ReturnVersions

SpecVersions == InitVersions /\ [][NextVersions]_vars

\* Calls of correctColor between the events of the page: the colour picker,
\* the presets, the device buttons and the brightness slider, and
\* correctColor called on a colour object of the caller's.
SessionCalls ==
  [rgb : {RGB(255, 102, 0), RGB(128, 128, 128)}, deviceProfile : {"tl-fans", "cm-halos"}]

CallCorrectColor(arguments) ==
  /\ pc = "page"
  /\ pc' = "correctColor"
  /\ call' = arguments
  /\ ret' = <<>>
  /\ UNCHANGED <<session, page, profiles>>

\* The caller goes on after the call.
Resume ==
  /\ pc = "corrected"
  /\ pc' = "page"
  /\ call' = <<>>
  /\ ret' = <<>>
  /\ UNCHANGED <<session, page, profiles>>

NextSession ==
  \/ \E value \in PickerValues : ColorPickerInput(value)
  \/ \E btn \in DOMAIN deviceButtons : DeviceButtonClick(btn)
  \/ \E text \in SliderValues : BrightnessInput(text)
  \/ \E color \in PresetColors : PresetClick(color)
  \/ \E arguments \in SessionCalls : CallCorrectColor(arguments)
  \/ ReturnCorrected
  \/ Resume

SpecSession == Init /\ [][NextSession]_vars

\* ----------------------------------------------------------------- claims

Channel255(c) == c \in 0..255

\* C1: for every colour with channels in 0..255 and every key of
\* DEVICE_PROFILES, correctColor returns three channels that are each an
\* integer in 0..255.
C1_CorrectedInRange ==
  pc = "corrected" =>
    /\ call.deviceProfile \in DOMAIN DEVICE_PROFILES
    /\ Channel255(ret.r) /\ Channel255(ret.g) /\ Channel255(ret.b)

\* correctColor has returned for the default orange on 'tl-fans', through the
\* orange rule and the blend.
C1_Witness ==
  /\ pc = "corrected"
  /\ call = [rgb |-> RGB(255, 102, 0), deviceProfile |-> "tl-fans"]
  /\ ret = RGB(255, 34, 0)

\* The grammar of a hex colour as the claims state it: an optional leading
\* '#', then exactly 6 hex digits.
HexChars == {"0", "1", "2", "3", "4", "5", "6", "7", "8", "9",
             "a", "b", "c", "d", "e", "f", "A", "B", "C", "D", "E", "F"}
SixHexDigits(str) == Len(str) = 6 /\ \A i \in 1..6 : str[i] \in HexChars
ValidHexColour(str) ==
  \/ SixHexDigits(str)
  \/ Len(str) = 7 /\ str[1] = "#" /\ SixHexDigits(Tail(str))

\* C2: hexToRgb(h) returns a colour exactly when h is an optional '#' and 6
\* hex digits, which is exactly when isValidHex(h) is true; for every other
\* string it returns null.
C2_ParsesExactlyValidHex ==
  pc = "parsed" =>
    /\ (ret.rgb # null) <=> ValidHexColour(call)
    /\ ret.valid <=> ValidHexColour(call)
    /\ ret.rgb # null => Channel255(ret.rgb.r) /\ Channel255(ret.rgb.g) /\ Channel255(ret.rgb.b)

\* hexToRgb has returned null for a 7-character string with a letter that is
\* no hex digit in it.
C2_Witness ==
  /\ pc = "parsed"
  /\ call = <<"#", "9", "9", "G", "9", "9", "9">>
  /\ ret.rgb = null
  /\ ~ret.valid

\* The value the hex field's handler tests: the text with a '#' put in front
\* when it has none.
WithHash(text) == IF Len(text) > 0 /\ text[1] = "#" THEN text ELSE <<"#">> \o text

\* C3: a hex-text input, a colour-picker event or a preset click whose value
\* is not a valid hex colour leaves currentColor, currentDevice,
\* currentBrand and currentBrightness as they were, and the handler ends
\* without a fault.
C3_InvalidHexIgnored ==
  [][ /\ \A value \in PickerValues :
           ~ValidHexColour(value) /\ ColorPickerInput(value)
             => UNCHANGED session /\ ~fault'
      /\ \A text \in HexTexts :
           ~ValidHexColour(WithHash(text)) /\ HexInputInput(text)
             => UNCHANGED session /\ ~fault'
      /\ \A color \in PresetColors :
           ~ValidHexColour(color) /\ PresetClick(color)
             => UNCHANGED session /\ ~fault' ]_vars

\* The malformed text "#12G456" has been typed into the hex field after the
\* colour was changed, and the colour set before is still the current one.
C3_Witness ==
  /\ dom.hexInput = BadHex
  /\ currentColor = RGB(0, 0, 255)
  /\ dom.targetRgb = RGB(0, 0, 255)
  /\ ~fault

\* C4: a UI update never ends with the target fields showing the current
\* colour while the corrected fields show a value computed for another
\* colour or profile, also when the selected key names no profile.
C4_DisplayNotCorrupted ==
  dom.targetRgb = currentColor =>
    /\ computedFor.color = currentColor
    /\ computedFor.device = currentDevice

\* C5: rgbToHsl returns a whole hue h with 0 <= h < 360 and whole saturation
\* and lightness in 0..100.
C5_HslInRange ==
  pc = "hslToRgb" =>
    /\ ret.h \in 0..359
    /\ ret.s \in 0..100
    /\ ret.l \in 0..100

\* Numerals that can be typed into a channel field, each with the number it
\* writes.
TypedNumbers == { <<<<"2", "5", "5">>, 255>>, <<<<"3", "0", "0">>, 300>>, <<<<"-", "5">>, -5>> }

\* Texts that can be typed into a channel field and write no number.
NonNumeric == { <<"a", "b", "c">>, <<>> }

\* C6: each channel of currentColor is an integer in 0..255 after any
\* sequence of events; a typed channel value below 0 is stored as 0, one
\* above 255 as 255, one between as it is, and a non-numeric one as 0.
C6_ChannelsClamped ==
  /\ [](Channel255(currentColor.r) /\ Channel255(currentColor.g) /\ Channel255(currentColor.b))
  /\ [][ \A channel \in {"r", "g", "b"} :
           /\ \A typed \in TypedNumbers :
                \/ currentColor'[channel] = IF typed[2] < 0 THEN 0
                                            ELSE IF typed[2] > 255 THEN 255
                                            ELSE typed[2]
                \/ ~ChannelInput(channel, typed[1])
           /\ \A text \in NonNumeric :
                \/ currentColor'[channel] = 0
                \/ ~ChannelInput(channel, text) ]_vars

\* Green has been typed above 255 and blue left at 0, or the like: a colour
\* only the channel fields lead to.
C6_Witness ==
  /\ currentColor = RGB(0, 255, 0)
  /\ dom.gInput = 255
  /\ dom.rInput = 0

\* C7: the brightness-scaled corrected channels shown to the user are within
\* 0..255 for every brightness the slider's handler can store.
C7_ShownInRange ==
  /\ Channel255(dom.correctedRgb.r)
  /\ Channel255(dom.correctedRgb.g)
  /\ Channel255(dom.correctedRgb.b)

\* The table of categories as the claim states it: [lo, hi) and its name.
CategoryTable ==
  << <<0, 15, "red">>, <<15, 45, "orange">>, <<45, 70, "yellow">>, <<70, 150, "green">>,
     <<150, 200, "teal">>, <<200, 260, "blue">>, <<260, 310, "purple">>,
     <<310, 340, "pink">>, <<340, 360, "red">> >>

\* The rows of the table that contain the hue, 360 taken as 0.
CategoryRows(hue) ==
  {i \in DOMAIN CategoryTable :
     CategoryTable[i][1] <= hue % 360 /\ hue % 360 < CategoryTable[i][2]}

\* C8: for every whole hue in 0..360 getColorCategory returns the category
\* of the one row of the table that contains the hue, 360 taken as 0.
C8_CategoryOfTable ==
  pc = "classified" =>
    /\ Cardinality(CategoryRows(call)) = 1
    /\ \A i \in CategoryRows(call) : ret = CategoryTable[i][3]

\* getColorCategory has returned for a hue that opens a range.
C8_Witness ==
  /\ pc = "classified"
  /\ call = 45
  /\ ret = "yellow"

\* The largest distance between a channel of the colour converted and the
\* same channel of the colour converted back.
RoundTripError == Max3(Abs(ret.rgb.r - call.r), Abs(ret.rgb.g - call.g), Abs(ret.rgb.b - call.b))

\* C9 as stated: every channel of hslToRgb(rgbToHsl(r, g, b)) differs from
\* the original by at most 1.
C9_WithinOne == pc = "converted" => RoundTripError <= 1

\* C9 as amended: every channel of hslToRgb(rgbToHsl(r, g, b)) differs from
\* the original by at most 5.
C9_WithinFive == pc = "converted" => RoundTripError <= 5

\* (2, 228, 230) has come back as (2, 223, 227): an error of 5.
C9_Witness ==
  /\ pc = "converted"
  /\ call = RGB(2, 228, 230)
  /\ ret.hsl = HSL(181, 98, 45)
  /\ ret.rgb = RGB(2, 223, 227)

\* C10: hexToRgb(rgbToHex(r, g, b)) is exactly the colour (r, g, b).
C10_HexRoundTrip == pc = "reparsed" => ret.rgb = call

\* A colour with a channel below 16 has been written as "#FF6600" and read
\* back.
C10_Witness ==
  /\ pc = "reparsed"
  /\ call = RGB(255, 102, 0)
  /\ ret.hex = OrangeHex
  /\ ret.rgb = RGB(255, 102, 0)

\* A letter of a hex colour in upper case.
UpperHexChar(c) ==
  CASE c = "a" -> "A" [] c = "b" -> "B" [] c = "c" -> "C"
    [] c = "d" -> "D" [] c = "e" -> "E" [] c = "f" -> "F"
    [] OTHER -> c

\* A hex colour in upper case with exactly one leading '#'.
NormalizedHex(str) ==
  LET digits == IF str[1] = "#" THEN Tail(str) ELSE str
  IN  <<"#">> \o [i \in 1..6 |-> UpperHexChar(digits[i])]

\* C11: for every valid hex string h, in any letter case and with or without
\* the '#', rgbToHex of the channels of hexToRgb(h) is h in upper case with
\* exactly one leading '#'.
C11_HexNormalized ==
  /\ pc = "parsed" /\ ValidHexColour(call) => ret.rgb # null
  /\ pc = "normalized" => ValidHexColour(call) /\ ret = NormalizedHex(call)

\* A string of mixed case without '#' has been read and written back.
C11_Witness ==
  /\ pc = "normalized"
  /\ call = <<"f", "9", "A", "f", "9", "9">>
  /\ ret = <<"#", "F", "9", "A", "F", "9", "9">>

\* C12: after any sequence of correctColor calls and UI events every profile
\* of DEVICE_PROFILES, with its hue correction rules, is as it was at
\* startup, and a call of correctColor leaves its argument rgb,
\* currentColor, currentDevice and currentBrightness unchanged.
C12_NothingMutated ==
  /\ [](profiles = DEVICE_PROFILES)
  /\ [][pc = "correctColor" /\ pc' = "corrected" =>
         UNCHANGED <<call, currentColor, currentDevice, currentBrightness>>]_vars

\* correctColor has returned for the caller's orange after the page's colour
\* was set to blue, and the brightness to 150.
C12_Witness ==
  /\ pc = "corrected"
  /\ call = [rgb |-> RGB(255, 102, 0), deviceProfile |-> "tl-fans"]
  /\ ret = RGB(255, 34, 0)
  /\ currentColor = RGB(0, 0, 255)
  /\ currentBrightness = 150
  /\ profiles = DEVICE_PROFILES

\* C13: for an achromatic colour (r = g = b) and every profile, the hue and
\* the saturation are 0, no hue correction rule is active, the corrected
\* saturation stays 0, and the channels of the corrected colour differ from
\* one another by at most 2.
C13_GrayStaysGray ==
  pc = "corrected" /\ call.rgb.r = call.rgb.g /\ call.rgb.g = call.rgb.b =>
    /\ \A hsl \in rgbToHsl(call.rgb.r, call.rgb.g, call.rgb.b) :
         /\ hsl.h = 0 /\ hsl.s = 0
         /\ specialCorrection(profiles[call.deviceProfile], hsl.h) = 0
         /\ correctedSat(profiles[call.deviceProfile], hsl.s) = 0
    /\ Max3(ret.r, ret.g, ret.b) - Min3(ret.r, ret.g, ret.b) <= 2

\* C14: for (255, 102, 0) with 'tl-fans' the hue is 24, the active rule is
\* the one of range [15, 45] with greenMultiplier 0.08 and hueShift -10, the
\* direct-correction green is 8, and the colour returned has a green of at
\* most 51 and every channel in 0..255.
C14_DefaultOrange ==
  pc = "corrected" /\ call = [rgb |-> RGB(255, 102, 0), deviceProfile |-> "tl-fans"] =>
    /\ \A hsl \in rgbToHsl(255, 102, 0) :
         LET profile == profiles["tl-fans"]
             active  == specialCorrection(profile, hsl.h)
         IN  /\ hsl.h = 24
             /\ active # 0
             /\ profile.hueCorrections[active].range = <<15, 45>>
             /\ profile.hueCorrections[active].greenMultiplier = 8
             /\ profile.hueCorrections[active].hueShift = -10
             /\ correctedGreen(profile, 102, hsl.h) = {8}
    /\ ret.g <= 51
    /\ Channel255(ret.r) /\ Channel255(ret.g) /\ Channel255(ret.b)

\* The call has returned, with the green of 8 blended to 34.
C14_Witness ==
  /\ pc = "corrected"
  /\ call.rgb = RGB(255, 102, 0)
  /\ call.deviceProfile = "tl-fans"
  /\ correctedGreen(profiles["tl-fans"], 102, 24) = {8}
  /\ ret.g = 34

\* The rules of a profile whose closed interval [min, max] contains the hue.
Containing(hueCorrections, hue) ==
  {i \in DOMAIN hueCorrections :
     hueCorrections[i].range[1] <= hue /\ hue <= hueCorrections[i].range[2]}

\* v is x times a multiplier given in hundredths, rounded to a whole number.
RoundedProduct(v, x, hundredths) == Abs(100 * v - x * hundredths) <= 50

\* What one rule does to the green, the blue and the hue, and nothing else.
AppliedOnly(rule, green, blue, hue, out) ==
  /\ IF "greenMultiplier" \in DOMAIN rule
       THEN RoundedProduct(out.correctedG, green, rule.greenMultiplier)
       ELSE out.correctedG = green
  /\ IF "blueMultiplier" \in DOMAIN rule
       THEN RoundedProduct(out.correctedB, blue, rule.blueMultiplier)
       ELSE out.correctedB = blue
  /\ out.correctedHue = 90 * Max(0, Min(360, hue + rule.hueShift))

\* C15: for every profile and every hue the active rule is the earliest
\* declared rule whose closed interval contains the hue, and none is active
\* when none contains it; the multiplier and the hue shift applied are those
\* of that one rule, at hue 45 those of the rule of [15, 45].
C15_FirstRuleWins ==
  pc = "scanned" =>
    LET hueCorrections == DEVICE_PROFILES[call.deviceProfile].hueCorrections
        containing     == Containing(hueCorrections, call.hue)
    IN  /\ containing = {} => ret.active = 0
        /\ containing # {} =>
             /\ ret.active \in containing
             /\ \A i \in containing : ret.active <= i
             /\ AppliedOnly(hueCorrections[ret.active], call.g, call.b, call.hue, ret)
        /\ call.hue = 45 =>
             /\ Cardinality(containing) = 2
             /\ hueCorrections[ret.active].range = <<15, 45>>

\* The scan has returned the first rule for hue 45, which the second rule
\* contains as well.
C15_Witness ==
  /\ pc = "scanned"
  /\ call.hue = 45
  /\ call.deviceProfile = "tl-fans"
  /\ Containing(profiles["tl-fans"].hueCorrections, 45) = {1, 2}
  /\ ret.active = 1
  /\ ret.correctedG = 8

\* |correctedHue - hue| > 2, the hues in 1/90 degree.
HueMoved(profile, h) == Abs(correctedHue(profile, h) - 90 * h) > 180

\* |correctedSaturation - saturation| > 5 for the doubles the code compares,
\* the saturations in 1/20 percent: the exact difference is above 5, or it
\* is 5 and the product that gives correctedSaturation is rounded above it.
SaturationMoved(profile, s) ==
  \/ Abs(correctedSat(profile, s) - 20 * s) > 100
  \/ Abs(correctedSat(profile, s) - 20 * s) = 100 /\ SatProductRoundsAbove(profile, s)

\* The mean of two channels rounded to a whole number, a half going up, and
\* clamped to 0..255.
ClampedMean(a, b) == Max(0, Min(255, (a + b + 1) \div 2))

\* C16: correctColor blends exactly when |correctedHue - hue| > 2 or
\* |correctedSaturation - saturation| > 5.  Then every channel returned is
\* the rounded mean of the direct-correction channel and the channel of
\* hslToRgb(correctedHue, correctedSaturation, lightness), clamped to
\* 0..255; otherwise the colour returned is the direct correction clamped
\* to 0..255, its red the red of the input.
C16_BlendOrDirect ==
  pc = "corrected" =>
    \E hsl \in rgbToHsl(call.rgb.r, call.rgb.g, call.rgb.b) :
      LET profile == profiles[call.deviceProfile]
      IN  \E g \in correctedGreen(profile, call.rgb.g, hsl.h),
             b \in correctedBlue(profile, call.rgb.b, hsl.h) :
            IF HueMoved(profile, hsl.h) \/ SaturationMoved(profile, hsl.s)
              THEN \E newRgb \in hslToRgb(correctedHue(profile, hsl.h),
                                          correctedSat(profile, hsl.s), hsl.l) :
                     ret = RGB(ClampedMean(call.rgb.r, newRgb.r),
                               ClampedMean(g, newRgb.g),
                               ClampedMean(b, newRgb.b))
              ELSE /\ ret = RGB(Max(0, Min(255, call.rgb.r)), Max(0, Min(255, g)),
                                Max(0, Min(255, b)))
                   /\ ret.r = call.rgb.r

\* correctColor has returned the direct correction of a grayish blue, whose
\* hue and saturation 'tl-fans' moves by less than the thresholds.
C16_Witness ==
  /\ pc = "corrected"
  /\ call = [rgb |-> RGB(128, 128, 160), deviceProfile |-> "tl-fans"]
  /\ ~HueMoved(profiles["tl-fans"], 240)
  /\ ~SaturationMoved(profiles["tl-fans"], 14)
  /\ ret = RGB(128, 128, 152)

\* v is c * brightness / 100 rounded to a whole number.
ScaledRounded(v, c, brightness) == Abs(100 * v - c * brightness) <= 50

\* C17: after every handler, the profile keys resolving, each corrected
\* channel on display is round(c * currentBrightness / 100) for the matching
\* channel c of correctColor(currentColor, currentDevice), at brightness 50
\* the rounded half of c; the corrected colour on display is never one
\* computed for another colour, device or brightness.
C17_DisplayUpToDate ==
  /\ computedFor = [color |-> currentColor, device |-> currentDevice,
                    brightness |-> currentBrightness]
  /\ \E c \in correctColor(currentColor, currentDevice) :
       \A channel \in {"r", "g", "b"} :
         /\ ScaledRounded(dom.correctedRgb[channel], c[channel], currentBrightness)
         /\ currentBrightness = 50 => 2 * dom.correctedRgb[channel] - c[channel] \in {0, 1}

\* The slider has been moved to 50 with the default orange on 'tl-fans':
\* (255, 34, 0) is shown as (128, 17, 0).
C17_Witness ==
  /\ currentBrightness = 50
  /\ currentColor = RGB(255, 102, 0)
  /\ currentDevice = "tl-fans"
  /\ dom.brightnessValue = 50
  /\ dom.correctedRgb = RGB(128, 17, 0)

\* C18: for every colour and each of the keys 'tl-fans', 'strimer' and
\* 'sl-fans', correctColor of src/app.js and correctColor of
\* src/unnamed/part_000 return the same colour, and at currentBrightness 100
\* the newer version shows the same corrected colour as the older one.
C18_VersionsAgree ==
  pc = "compared" =>
    /\ call.deviceProfile \in {"tl-fans", "strimer", "sl-fans"}
    /\ currentBrightness = 100
    /\ ret.app # {}
    /\ ret.app = ret.part
    /\ ret.appShown = ret.partShown

\* Both versions have corrected the default orange for 'strimer'.
C18_Witness ==
  /\ pc = "compared"
  /\ call = [rgb |-> RGB(255, 102, 0), deviceProfile |-> "strimer"]
  /\ ret.app = {RGB(255, 31, 0)}
  /\ ret.partShown = {[correctedHex |-> <<"#", "F", "F", "1", "F", "0", "0">>,
                       correctedRgb |-> RGB(255, 31, 0)]}

====
